---- MODULE Spec2Model ----
(***************************************************************************)
(* resend-rs: the shared request-dispatch layer (Config), the Client       *)
(* handle that owns it through an Arc, and the emails / contacts facades.  *)
(*                                                                         *)
(* Time is kept relative to "now" and measured in milliseconds: the        *)
(* limiter's theoretical arrival time, the remaining sleep of a waiting    *)
(* caller and the age of every recent admission move together when time    *)
(* advances, so the state stays finite without capping the clock.          *)
(*                                                                         *)
(* The rate limiter is governor's direct, not-keyed GCRA limiter as its    *)
(* documentation states it for the quota Config::new builds: one cell is   *)
(* replenished per period, at most `burst` cells are ever available, a     *)
(* fresh limiter is full.                                                  *)
(***************************************************************************)
EXTENDS Integers, Sequences, FiniteSets, TLC

\* ---------------------------------------------------------------- bounds
NumCallers == 2
MaxHandles == 2
MaxCalls == 3
MaxRate == 2

\* ------------------------------------------------------ program constants
Period == 1100
JitterMin == 10
JitterMax == 50
DefaultRateLimit == 9

Callers == 1..NumCallers
Handles == 1..MaxHandles

Monus(a, b) == IF a >= b THEN a - b ELSE 0

\* ------------------------------------------------------------ environment
\* RESEND_RATE_LIMIT as Config::new reads it: unset, or set to a string that
\* parses as a non-zero u32 (val is its value).
EnvUnset == [set |-> FALSE, val |-> 0]
EnvRate(n) == [set |-> TRUE, val |-> n]
RateEnvs == {EnvUnset} \cup {EnvRate(n) : n \in 1..MaxRate}

rate_limit_per_sec(env) == IF env.set THEN env.val ELSE DefaultRateLimit

\* ------------------------------------------------------------ HTTP bodies

EmailFields ==
    {"id", "from", "to", "subject", "created_at", "text", "bcc", "cc", "last_event"}
CreateEmailResponseFields == {"id"}
ContactResponseFields == {}
ErrorResponseFields == {"name", "message"}

Body(json, fields, name, message) ==
    [json |-> json, fields |-> fields, name |-> name, message |-> message]

BodyGarbage == Body(FALSE, {}, "", "")
BodyEmpty == Body(TRUE, {}, "", "")
BodyId == Body(TRUE, {"id"}, "", "")
BodyEmail == Body(TRUE, EmailFields, "", "")
BodyError(k, m) == Body(TRUE, ErrorResponseFields, k, m)
BodyNameOnly(k) == Body(TRUE, {"name"}, k, "")

Bodies ==
    {BodyGarbage, BodyEmpty, BodyId, BodyEmail,
     BodyError("validation_error", "invalid from field"),
     BodyError("not_found", "missing"),
     BodyNameOnly("not_found")}

Statuses == {100, 200, 399, 400, 422, 499, 500, 599, 600}

Response(status, body) == [status |-> status, body |-> body, read |-> FALSE]
NoResponse == [status |-> 0, body |-> BodyGarbage, read |-> FALSE]

\* What the transport gives back for one transmitted request.
NetOutcome(kind, resp) == [kind |-> kind, resp |-> resp]
NetError == NetOutcome("neterr", NoResponse)
BuildError == NetOutcome("builderr", NoResponse)
NoOutcome == NetOutcome("none", NoResponse)
AllNet ==
    {NetError} \cup {NetOutcome("resp", Response(s, b)) : s \in Statuses, b \in Bodies}
CoarseNet ==
    {NetError, NetOutcome("resp", Response(200, BodyEmail))}

\* ------------------------------------------------- response classification
is_client_error(status) == status >= 400 /\ status <= 499
is_server_error(status) == status >= 500 /\ status <= 599

\* response.json::<T>(): the body is JSON and carries every field T requires
\* (serde ignores unknown fields and reads a missing Option field as None).
DecodesAs(required, body) == body.json /\ required \subseteq body.fields

Res(tag, kind, message, resp) ==
    [tag |-> tag, kind |-> kind, message |-> message, resp |-> resp]
ResOk(resp) == Res("Ok", "", "", resp)
ResHttp == Res("Http", "", "", NoResponse)
ResResend(kind, message) == Res("Resend", kind, message, NoResponse)
ResNone == Res("None", "", "", NoResponse)

\* Variants of the match on the status, each a slip the code could have made.
ClassifyStatus_ClientOnly(resp) ==
    IF is_client_error(resp.status)
    THEN IF DecodesAs(ErrorResponseFields, resp.body)
         THEN ResResend(resp.body.name, resp.body.message)
         ELSE ResHttp
    ELSE ResOk(resp)

ClassifyStatus_Fabricate(resp) ==
    IF is_client_error(resp.status) \/ is_server_error(resp.status)
    THEN IF DecodesAs(ErrorResponseFields, resp.body)
         THEN ResResend(resp.body.name, resp.body.message)
         ELSE ResResend("application_error", "")
    ELSE ResOk(resp)

ClassifyStatus_SuccessOnly(resp) ==
    IF resp.status >= 200 /\ resp.status <= 299
    THEN ResOk(resp)
    ELSE IF DecodesAs(ErrorResponseFields, resp.body)
         THEN ResResend(resp.body.name, resp.body.message)
         ELSE ResHttp

\* Config::send after the limiter: request.build()?, client.execute(..)?, then
\* the match on response.status().
ClassifyStatus(resp) ==
    IF is_client_error(resp.status) \/ is_server_error(resp.status)
    THEN IF DecodesAs(ErrorResponseFields, resp.body)
         THEN ResResend(resp.body.name, resp.body.message)
         ELSE ResHttp
    ELSE ResOk(resp)

ConfigSendResult(net) ==
    IF net.kind = "resp" THEN ClassifyStatus(net.resp) ELSE ResHttp

\* reqwest's own RequestBuilder::send(): build and execute, no look at the status.
ReqwestSendResult(net) ==
    IF net.kind = "resp" THEN ResOk(net.resp) ELSE ResHttp

\* ---------------------------------------------------------------- facades
EmailsOps == {"emails.send", "emails.get"}
ContactsOps ==
    {"contacts.add", "contacts.retrieve", "contacts.update", "contacts.delete",
     "contacts.list"}
Ops == EmailsOps \cup ContactsOps
\* The method the concurrent callers of Config::send go through.
ConcurrentOps == {"emails.send"}

\* Which send a facade method awaits: self.0.send(request) is Config::send,
\* request.send() is the transport's.
UsesConfigSend(o) == o \in EmailsOps

ResponseType(o) ==
    CASE o = "emails.send" -> CreateEmailResponseFields
      [] o = "emails.get" -> EmailFields
      [] OTHER -> ContactResponseFields

\* The facade's value for its caller: `?` on the send result, then the decode
\* of the body (contacts.delete drops the response).
FacadeResult(o, sent) ==
    IF sent.tag # "Ok" THEN sent
    ELSE IF o = "contacts.delete" THEN ResOk(NoResponse)
    ELSE IF DecodesAs(ResponseType(o), sent.resp.body)
         THEN ResOk([sent.resp EXCEPT !.read = TRUE])
         ELSE ResHttp

SendResult(o, net) ==
    IF UsesConfigSend(o) THEN ConfigSendResult(net) ELSE ReqwestSendResult(net)

\* ----------------------------------------------------------------- Config
ApiKeys == {"re_123", "re_456"}
DefaultBaseUrl == "https://api.resend.com"
\* format!("{}/{}", env!("CARGO_PKG_NAME"), env!("CARGO_PKG_VERSION"))
UserAgent == "CARGO_PKG_NAME/CARGO_PKG_VERSION"

ConfigOf(api_key, base_url) ==
    [user_agent |-> UserAgent, api_key |-> api_key, base_url |-> base_url,
     client |-> "reqwest::Client"]
NoConfig == [user_agent |-> "", api_key |-> "", base_url |-> "", client |-> ""]

Method(o) ==
    CASE o \in {"emails.send", "contacts.add"} -> "POST"
      [] o = "contacts.update" -> "PATCH"
      [] o = "contacts.delete" -> "DELETE"
      [] OTHER -> "GET"

Path(o) ==
    CASE o = "emails.send" -> "/emails"
      [] o = "emails.get" -> "/emails/{email_id}"
      [] o \in {"contacts.add", "contacts.list"} -> "/audiences/{audience_id}/contacts"
      [] OTHER -> "/audiences/{audience_id}/contacts/{contact_id}"

NoRequest ==
    [method |-> "", url |-> <<"", "">>, auth |-> <<"", "">>, user_agent |-> ""]

\* ------------------------------------------------------------------ state
VARIABLES
    envRate,    \* RESEND_RATE_LIMIT of the process
    handleCfg,  \* Client handle -> the Config its facades hold (0: not created)
    burst,      \* Config -> max_burst of its limiter's quota
    tat,        \* Config -> the limiter's theoretical arrival time, from now
    admits,     \* Config -> requests let through to the transport in the last Period
    pc,         \* caller -> idle / acquire / execute / inflight
    op,         \* caller -> the facade method it is in
    hnd,        \* caller -> the handle it called through
    acquired,   \* caller -> it holds a cell of the limiter for this call
    waited,     \* caller -> the limiter has turned this call away at least once
    rem,        \* caller -> what is left of its sleep inside until_ready_with_jitter
    calls,      \* calls entered so far, over all callers
    last,       \* the call that completed last
    req,        \* caller -> the request Config::build made for this call
    cells,      \* caller -> cells of the limiter this call has taken
    trips,      \* caller -> times this call's request was handed to the transport
    boot,       \* the construction of the Client: its inputs, the Config it made
    email       \* a CreateEmailBaseOptions under construction, and the setters called

vars ==
    <<envRate, handleCfg, burst, tat, admits, pc, op, hnd, acquired, waited, rem,
      calls, last, req, cells, trips, boot, email>>

callerVars == <<pc, op, hnd, acquired, waited, rem, calls, req, cells, trips>>
clientVars == <<envRate, handleCfg, burst, boot, email>>

\* ------------------------------------------------------------------ build
\* A build that numbers the requests it makes.
build_Numbered(cfg, method, path) ==
    [method |-> method, url |-> <<cfg.base_url, path, calls>>,
     auth |-> <<"Bearer", cfg.api_key>>, user_agent |-> cfg.user_agent]

\* A build that leaves the credential out.
build_NoAuth(cfg, method, path) ==
    [method |-> method, url |-> <<cfg.base_url, path>>,
     auth |-> <<"", "">>, user_agent |-> cfg.user_agent]

\* Config::build: the path joined to base_url, bearer_auth(api_key), the
\* User-Agent header.
build(cfg, method, path) ==
    [method |-> method, url |-> <<cfg.base_url, path>>,
     auth |-> <<"Bearer", cfg.api_key>>, user_agent |-> cfg.user_agent]

\* ------------------------------------------------------------ rate limiter
\* Quota::with_period(1100 ms).allow_burst(n): one cell per Period, n at most.
Tau_BurstPlusOne(cfg) == burst[cfg] * Period

Tau(cfg) == (burst[cfg] - 1) * Period

\* The limiter's decision for a caller arriving now.
Ready_Strict(cfg) == tat[cfg] < Tau(cfg)

Ready(cfg) == tat[cfg] <= Tau(cfg)
WaitTime(cfg) == Monus(tat[cfg], Tau(cfg))
Available(cfg) == (burst[cfg] * Period - tat[cfg]) \div Period

Admission(throttled) == [age |-> 0, throttled |-> throttled]

\* Time passing by d ms for a sequence of admissions: those older than a
\* Period leave the window.
RECURSIVE Aged(_, _)
Aged(w, d) ==
    IF w = <<>> THEN <<>>
    ELSE IF Head(w).age + d >= Period THEN Aged(Tail(w), d)
    ELSE <<[Head(w) EXCEPT !.age = @ + d]>> \o Aged(Tail(w), d)

CfgOf(c) == handleCfg[hnd[c]]

\* ----------------------------------------------------------- construction
\* An environment variable holding a string: unset, or set to val.
StrUnset == [set |-> FALSE, val |-> ""]
StrSet(v) == [set |-> TRUE, val |-> v]

\* Url::parse, on the strings the model sets RESEND_BASE_URL to.
ValidUrls == {DefaultBaseUrl, "https://example.test"}
UrlParses(str) == str \in ValidUrls

\* str.parse::<u32>(): the model writes a numeric string as its value and a
\* string that is no unsigned number as a negative one.
ParsesAsU32(val) == val >= 0

\* The process environment and the arguments before a Client is made.
\* entry "new" is Client::new(api_key); entry "default" is Client::default(),
\* which reads RESEND_API_KEY.
EnvBefore(entry, api_key, envKey, envUrl, rate) ==
    [stage |-> "env", entry |-> entry, api_key |-> api_key, envKey |-> envKey,
     envUrl |-> envUrl, rate |-> rate, cfg |-> NoConfig, shown |-> <<>>]

\* Client::default: env::var("RESEND_API_KEY").expect(..)
KeyPanics(b) == b.entry = "default" /\ ~b.envKey.set
KeyOf(b) == IF b.entry = "default" THEN b.envKey.val ELSE b.api_key

\* Config::new: RESEND_BASE_URL parsed with expect; RESEND_RATE_LIMIT parsed
\* as u32 with expect; NonZeroU32::new(rate).expect(..).
UrlPanics(b) == b.envUrl.set /\ ~UrlParses(b.envUrl.val)
BaseUrlOf(b) == IF b.envUrl.set THEN b.envUrl.val ELSE DefaultBaseUrl
RatePanics(b) ==
    \/ b.rate.set /\ ~ParsesAsU32(b.rate.val)
    \/ rate_limit_per_sec(b.rate) = 0

ConstructionPanics(b) == KeyPanics(b) \/ UrlPanics(b) \/ RatePanics(b)

Built(b) ==
    IF ConstructionPanics(b)
    THEN [b EXCEPT !.stage = "panicked"]
    ELSE [b EXCEPT !.stage = "built", !.cfg = ConfigOf(KeyOf(b), BaseUrlOf(b))]

\* impl Debug for Config: debug_struct("Client") with the mask in place of
\* the key, user_agent, base_url, finish_non_exhaustive.
KeyMask == "re_*********"

\* The output is the sequence of the pieces written to the formatter.
DebugConfig_ShowKey(cfg) ==
    <<"Client", "api_key", cfg.api_key, "user_agent", cfg.user_agent,
      "base_url", cfg.base_url, "..">>

DebugConfig(cfg) ==
    <<"Client", "api_key", KeyMask, "user_agent", cfg.user_agent,
      "base_url", cfg.base_url, "..">>

\* #[derive(Debug)] on EmailsSvc(Arc<Config>); Contacts and Client hand the
\* formatter on to self.0 and to self.emails.
DebugEmailsSvc(cfg) == <<"EmailsSvc">> \o DebugConfig(cfg)
DebugContacts(cfg) == DebugConfig(cfg)
DebugClient(cfg) == DebugEmailsSvc(cfg)

Formatters == {"Client", "EmailsSvc", "Contacts", "Config"}
DebugOf(who, cfg) ==
    CASE who = "Client" -> DebugClient(cfg)
      [] who = "EmailsSvc" -> DebugEmailsSvc(cfg)
      [] who = "Contacts" -> DebugContacts(cfg)
      [] OTHER -> DebugConfig(cfg)

\* ----------------------------------------------------- email request builder
None == <<>>
Some(v) == <<v>>

\* CreateEmailBaseOptions::new(from, to, subject); setters is the record of
\* the setter calls made on the value since.
CreateEmailBaseOptions_new ==
    [from |-> "from", to |-> <<"to">>, subject |-> "subject",
     html |-> None, text |-> None, bcc |-> None, cc |-> None, reply_to |-> None,
     headers |-> None, attachments |-> None, tags |-> None, setters |-> <<>>]

\* self.<field>.get_or_insert_with(Vec::new).push(v)
Push(field, v) == IF field = None THEN Some(<<v>>) ELSE Some(Append(field[1], v))

\* self.headers.get_or_insert_with(HashMap::new).insert(name, value)
Insert(field, name, value) ==
    IF field = None
    THEN Some([n \in {name} |-> value])
    ELSE Some([n \in DOMAIN field[1] \cup {name} |->
                  IF n = name THEN value ELSE field[1][n]])

SetterCall(setter, name, value) == [setter |-> setter, name |-> name, value |-> value]

MaxSetters == 3
Texts == {"a", "b"}
HeaderNames == {"X-A", "X-B"}

\* ------------------------------------------------------------------- Init
NoLast ==
    [done |-> FALSE, op |-> "emails.send", net |-> NoOutcome, sent |-> ResNone,
     result |-> ResNone, waited |-> FALSE, acquired |-> FALSE,
     cells |-> 0, trips |-> 0, dropped |-> FALSE, req |-> NoRequest]

\* Client::new / with_client has run once: handle 1 owns Config 1, and no
\* call has been made.
Started ==
    /\ handleCfg = [h \in Handles |-> IF h = 1 THEN 1 ELSE 0]
    /\ burst = [k \in Handles |-> IF k = 1 THEN rate_limit_per_sec(envRate) ELSE 0]
    /\ tat = [k \in Handles |-> 0]
    /\ admits = [k \in Handles |-> <<>>]
    /\ pc = [c \in Callers |-> "idle"]
    /\ op = [c \in Callers |-> "emails.send"]
    /\ hnd = [c \in Callers |-> 1]
    /\ acquired = [c \in Callers |-> FALSE]
    /\ waited = [c \in Callers |-> FALSE]
    /\ rem = [c \in Callers |-> 0]
    /\ calls = 0
    /\ last = NoLast
    /\ req = [c \in Callers |-> NoRequest]
    /\ cells = [c \in Callers |-> 0]
    /\ trips = [c \in Callers |-> 0]
    /\ email = CreateEmailBaseOptions_new

Init ==
    /\ envRate \in RateEnvs
    /\ boot = Built(EnvBefore("new", "re_123", StrUnset, StrUnset, envRate))
    /\ Started

\* Before construction: the arguments and the environment are any of those
\* the model draws, and there is no handle yet.
ConstructRateEnvs == RateEnvs \cup {EnvRate(0), EnvRate(-1)}
KeyEnvs == {StrUnset} \cup {StrSet(k) : k \in ApiKeys}
UrlEnvs == {StrUnset, StrSet("https://example.test"), StrSet("not a url")}

InitConstruct ==
    /\ envRate \in ConstructRateEnvs
    /\ \E entry \in {"new", "default"}, key \in ApiKeys, envKey \in KeyEnvs,
          envUrl \in UrlEnvs :
            boot = EnvBefore(entry, key, envKey, envUrl, envRate)
    /\ handleCfg = [h \in Handles |-> 0]
    /\ burst = [k \in Handles |-> 0]
    /\ tat = [k \in Handles |-> 0]
    /\ admits = [k \in Handles |-> <<>>]
    /\ pc = [c \in Callers |-> "idle"]
    /\ op = [c \in Callers |-> "emails.send"]
    /\ hnd = [c \in Callers |-> 1]
    /\ acquired = [c \in Callers |-> FALSE]
    /\ waited = [c \in Callers |-> FALSE]
    /\ rem = [c \in Callers |-> 0]
    /\ calls = 0
    /\ last = NoLast
    /\ req = [c \in Callers |-> NoRequest]
    /\ cells = [c \in Callers |-> 0]
    /\ trips = [c \in Callers |-> 0]
    /\ email = CreateEmailBaseOptions_new

\* Client::new / Client::default runs: it panics, or handle 1 owns Config 1
\* with a limiter of the burst the environment asks for.
Construct ==
    /\ boot.stage = "env"
    /\ boot' = Built(boot)
    /\ IF ConstructionPanics(boot)
       THEN UNCHANGED <<handleCfg, burst>>
       ELSE /\ handleCfg' = [h \in Handles |-> IF h = 1 THEN 1 ELSE 0]
            /\ burst' = [k \in Handles |->
                            IF k = 1 THEN rate_limit_per_sec(envRate) ELSE 0]
    /\ UNCHANGED <<envRate, email, tat, admits, callerVars, last>>

\* {:?} of the Client, of one of its facades or of its Config.
Format(who) ==
    /\ boot.stage = "built"
    /\ boot' = [boot EXCEPT !.shown = DebugOf(who, boot.cfg)]
    /\ UNCHANGED <<envRate, handleCfg, burst, email, tat, admits, callerVars, last>>

NextConstruct ==
    \/ Construct
    \/ \E who \in Formatters : Format(who)

SpecConstruct == InitConstruct /\ [][NextConstruct]_vars

\* ---------------------------------------------------------------- clients
FreeHandles == {h \in Handles : handleCfg[h] = 0}
NextHandle == CHOOSE h \in FreeHandles : \A g \in FreeHandles : h <= g

\* #[derive(Clone)] on Client and on the facades: every Arc<Config> is cloned,
\* the Config is not.
CloneTarget(h) == handleCfg[h]

CloneClient(h) ==
    /\ handleCfg[h] # 0
    /\ FreeHandles # {}
    /\ handleCfg' = [handleCfg EXCEPT ![NextHandle] = CloneTarget(h)]
    /\ burst' = [burst EXCEPT ![NextHandle] =
                    IF CloneTarget(h) = NextHandle THEN burst[handleCfg[h]] ELSE @]
    /\ UNCHANGED <<envRate, boot, email, tat, admits, callerVars, last>>

\* ------------------------------------------------------------ facade calls
\* A facade method is entered: Config::build, then the first poll of the send
\* it awaits.
FirstStep_NoLimiter(o) == "execute"

FirstStep(o) == IF UsesConfigSend(o) THEN "acquire" ELSE "execute"

\* Callers are tasks of the runtime: a new call runs in the first free one.
FreeCallers == {c \in Callers : pc[c] = "idle"}

Call(c, h, o) ==
    /\ c \in FreeCallers
    /\ \A b \in FreeCallers : c <= b
    /\ calls < MaxCalls
    /\ calls' = calls + 1
    /\ handleCfg[h] # 0
    /\ pc' = [pc EXCEPT ![c] = FirstStep(o)]
    /\ op' = [op EXCEPT ![c] = o]
    /\ hnd' = [hnd EXCEPT ![c] = h]
    /\ acquired' = [acquired EXCEPT ![c] = FALSE]
    /\ waited' = [waited EXCEPT ![c] = FALSE]
    /\ req' = [req EXCEPT ![c] = build(boot.cfg, Method(o), Path(o))]
    /\ cells' = [cells EXCEPT ![c] = 0]
    /\ trips' = [trips EXCEPT ![c] = 0]
    /\ UNCHANGED <<clientVars, tat, admits, rem, last>>

\* Config::send, limiter.until_ready_with_jitter(jitter): one turn of its loop.
\* A cell is there: it is taken and the caller goes on. None is there: the
\* caller sleeps for the time the limiter names plus the jitter, then asks again.
Admit(c) ==
    /\ Ready(CfgOf(c))
    /\ tat' = [tat EXCEPT ![CfgOf(c)] = @ + Period]
    /\ admits' = [admits EXCEPT ![CfgOf(c)] = Append(@, Admission(TRUE))]
    /\ pc' = [pc EXCEPT ![c] = "execute"]
    /\ acquired' = [acquired EXCEPT ![c] = TRUE]
    /\ cells' = [cells EXCEPT ![c] = @ + 1]
    /\ UNCHANGED <<clientVars, op, hnd, waited, rem, calls, last, req, trips>>

Delay_Reject(c, jitter) ==
    /\ ~Ready(CfgOf(c))
    /\ last' = [NoLast EXCEPT !.done = TRUE, !.op = op[c], !.result = ResHttp,
                               !.sent = ResHttp, !.waited = TRUE]
    /\ pc' = [pc EXCEPT ![c] = "idle"]
    /\ UNCHANGED <<clientVars, tat, admits, op, hnd, acquired, waited, rem, calls,
                   req, cells, trips>>

\* A limiter that books the cell for the caller it turns away.
Delay_Reserve(c, jitter) ==
    /\ ~Ready(CfgOf(c))
    /\ rem' = [rem EXCEPT ![c] = WaitTime(CfgOf(c)) + jitter]
    /\ waited' = [waited EXCEPT ![c] = TRUE]
    /\ tat' = [tat EXCEPT ![CfgOf(c)] = @ + Period]
    /\ UNCHANGED <<clientVars, admits, pc, op, hnd, acquired, calls, last,
                   req, cells, trips>>

Delay(c, jitter) ==
    /\ ~Ready(CfgOf(c))
    /\ rem' = [rem EXCEPT ![c] = WaitTime(CfgOf(c)) + jitter]
    /\ waited' = [waited EXCEPT ![c] = TRUE]
    /\ UNCHANGED <<clientVars, tat, admits, pc, op, hnd, acquired, calls, last,
                   req, cells, trips>>

Acquire(c, jitter) ==
    /\ pc[c] = "acquire"
    /\ rem[c] = 0
    /\ (Admit(c) \/ Delay(c, jitter))

\* The call returns to its caller.
Completed(c, net) ==
    [done |-> TRUE, op |-> op[c], net |-> net, sent |-> SendResult(op[c], net),
     result |-> FacadeResult(op[c], SendResult(op[c], net)),
     waited |-> waited[c], acquired |-> acquired[c],
     cells |-> cells[c], trips |-> trips[c], dropped |-> FALSE, req |-> req[c]]

\* A return that shuts the transport of the Config when the call failed.
Return_Poison(c, net) ==
    /\ last' = Completed(c, net)
    /\ pc' = [pc EXCEPT ![c] = "idle"]
    /\ op' = [op EXCEPT ![c] = "emails.send"]
    /\ hnd' = [hnd EXCEPT ![c] = 1]
    /\ acquired' = [acquired EXCEPT ![c] = FALSE]
    /\ waited' = [waited EXCEPT ![c] = FALSE]
    /\ req' = [req EXCEPT ![c] = NoRequest]
    /\ cells' = [cells EXCEPT ![c] = 0]
    /\ trips' = [trips EXCEPT ![c] = 0]
    /\ boot' = [boot EXCEPT !.cfg.client =
                    IF Completed(c, net).result.tag = "Ok" THEN @ ELSE "closed"]
    /\ UNCHANGED <<rem, calls, envRate, handleCfg, burst, email>>

\* The future is done and dropped with its locals; the Config it borrowed is
\* as it was.
Return(c, net) ==
    /\ last' = Completed(c, net)
    /\ pc' = [pc EXCEPT ![c] = "idle"]
    /\ op' = [op EXCEPT ![c] = "emails.send"]
    /\ hnd' = [hnd EXCEPT ![c] = 1]
    /\ acquired' = [acquired EXCEPT ![c] = FALSE]
    /\ waited' = [waited EXCEPT ![c] = FALSE]
    /\ req' = [req EXCEPT ![c] = NoRequest]
    /\ cells' = [cells EXCEPT ![c] = 0]
    /\ trips' = [trips EXCEPT ![c] = 0]
    /\ UNCHANGED <<rem, calls, clientVars>>

\* request.build()? and client.execute(request): the request is finalized and
\* handed to the transport, or finalizing fails and the call ends.
Transmit(c, ok) ==
    /\ pc[c] = "execute"
    /\ IF ok
       THEN /\ pc' = [pc EXCEPT ![c] = "inflight"]
            /\ admits' = [admits EXCEPT ![CfgOf(c)] =
                             IF acquired[c] THEN @ ELSE Append(@, Admission(FALSE))]
            /\ trips' = [trips EXCEPT ![c] = @ + 1]
            /\ UNCHANGED <<op, hnd, acquired, waited, rem, calls, last, req, cells,
                           clientVars>>
       ELSE /\ Return(c, BuildError)
            /\ UNCHANGED admits
    /\ UNCHANGED tat

\* The transport answers (or fails); the rest of send and of the facade runs.
Respond(c, net) ==
    /\ pc[c] = "inflight"
    /\ Return(c, net)
    /\ UNCHANGED <<tat, admits>>

\* The caller drops the future of its call at one of its two awaits: the
\* limiter's wait or the transport's answer. The locals go with it; nothing is
\* returned.
Dropped(c) ==
    [NoLast EXCEPT !.dropped = TRUE, !.op = op[c], !.waited = waited[c],
                   !.acquired = acquired[c], !.cells = cells[c], !.trips = trips[c],
                   !.req = req[c]]

Cancel(c) ==
    /\ pc[c] \in {"acquire", "inflight"}
    /\ last' = Dropped(c)
    /\ pc' = [pc EXCEPT ![c] = "idle"]
    /\ op' = [op EXCEPT ![c] = "emails.send"]
    /\ hnd' = [hnd EXCEPT ![c] = 1]
    /\ acquired' = [acquired EXCEPT ![c] = FALSE]
    /\ waited' = [waited EXCEPT ![c] = FALSE]
    /\ rem' = [rem EXCEPT ![c] = 0]
    /\ req' = [req EXCEPT ![c] = NoRequest]
    /\ cells' = [cells EXCEPT ![c] = 0]
    /\ trips' = [trips EXCEPT ![c] = 0]
    /\ UNCHANGED <<clientVars, tat, admits, calls>>

\* ------------------------------------------------------------------- time
Advance(d) ==
    /\ d > 0
    /\ tat' = [k \in Handles |-> Monus(tat[k], d)]
    /\ rem' = [c \in Callers |-> Monus(rem[c], d)]
    /\ admits' = [k \in Handles |-> Aged(admits[k], d)]
    /\ UNCHANGED <<clientVars, pc, op, hnd, acquired, waited, calls, last,
                   req, cells, trips>>

\* The instants at which something can change: a sleeper's wake-up, a limiter
\* becoming ready, a period of quiet.
Delays ==
    {rem[c] : c \in Callers} \cup {WaitTime(k) : k \in {h \in Handles : burst[h] > 0}}
        \cup {Period}

Jitters == {JitterMin, JitterMax}

\* ------------------------------------------------------------------- Next
Next ==
    \/ \E h \in Handles : CloneClient(h)
    \/ \E c \in Callers, h \in Handles, o \in ConcurrentOps : Call(c, h, o)
    \/ \E c \in Callers, j \in Jitters : Acquire(c, j)
    \/ \E c \in Callers, ok \in BOOLEAN : Transmit(c, ok)
    \/ \E c \in Callers, net \in CoarseNet : Respond(c, net)
    \/ \E d \in Delays : Advance(d)

Spec == Init /\ [][Next]_vars

\* One caller issuing its calls one after the other, through every facade
\* method and against every answer of the transport.
NextDispatch ==
    \/ \E o \in Ops : Call(1, 1, o)
    \/ \E j \in Jitters : Acquire(1, j)
    \/ \E ok \in BOOLEAN : Transmit(1, ok)
    \/ \E net \in AllNet : Respond(1, net)
    \/ \E d \in Delays : Advance(d)

\* The process environment leaves RESEND_RATE_LIMIT unset.
InitDispatch == Init /\ envRate = EnvUnset

SpecDispatch == InitDispatch /\ [][NextDispatch]_vars

\* One caller issuing its calls through a Client and its clones, through a
\* facade of each kind.
CloneOps == {"emails.send", "contacts.add"}

NextClones ==
    \/ \E h \in Handles : CloneClient(h)
    \/ \E h \in Handles, o \in CloneOps : Call(1, h, o)
    \/ \E j \in Jitters : Acquire(1, j)
    \/ \E ok \in BOOLEAN : Transmit(1, ok)
    \/ \E net \in CoarseNet : Respond(1, net)
    \/ \E d \in Delays : Advance(d)

SpecClones == Init /\ [][NextClones]_vars

\* The same, for a Client made by Client::new or by Client::default with any
\* of the keys.
InitAuth ==
    /\ envRate = EnvUnset
    /\ \E entry \in {"new", "default"}, key \in ApiKeys, envKey \in KeyEnvs :
        /\ boot = Built(EnvBefore(entry, key, envKey, StrUnset, envRate))
        /\ boot.stage = "built"
    /\ Started

SpecAuth == InitAuth /\ [][NextClones]_vars

\* The callers of one Dispatcher, through one handle. Callers are scheduled
\* again once their sleep is over, and time goes on.
NextFair ==
    \/ \E c \in Callers, o \in ConcurrentOps : Call(c, 1, o)
    \/ \E c \in Callers, j \in Jitters : Acquire(c, j)
    \/ \E c \in Callers, ok \in BOOLEAN : Transmit(c, ok)
    \/ \E c \in Callers, net \in CoarseNet : Respond(c, net)
    \/ \E d \in Delays : Advance(d)

FairSpec ==
    /\ Init /\ [][NextFair]_vars
    /\ \A c \in Callers : WF_vars(\E j \in Jitters : Acquire(c, j))
    /\ WF_vars(\E d \in Delays : Advance(d))

\* The callers of one Dispatcher, any of which may abandon its call.
NextCancel ==
    \/ \E c \in Callers, o \in ConcurrentOps : Call(c, 1, o)
    \/ \E c \in Callers, j \in Jitters : Acquire(c, j)
    \/ \E c \in Callers, ok \in BOOLEAN : Transmit(c, ok)
    \/ \E c \in Callers, net \in CoarseNet : Respond(c, net)
    \/ \E c \in Callers : Cancel(c)
    \/ \E d \in Delays : Advance(d)

SpecCancel == Init /\ [][NextCancel]_vars

\* ----------------------------------------------------------- builder steps
\* Each setter takes the value by move and gives it back with one field set.
Set(setter, name, value, field, new) ==
    /\ Len(email.setters) < MaxSetters
    /\ email' = [email EXCEPT ![field] = new,
                              !.setters = Append(@, SetterCall(setter, name, value))]
    /\ UNCHANGED <<envRate, handleCfg, burst, boot, tat, admits, callerVars, last>>

with_html(html) == Set("with_html", "", html, "html", Some(html))
with_text(text) == Set("with_text", "", text, "text", Some(text))

with_bcc_Overwrite(address) ==
    Set("with_bcc", "", address, "bcc", Some(<<address>>))

with_bcc(address) == Set("with_bcc", "", address, "bcc", Push(email.bcc, address))
with_cc(address) == Set("with_cc", "", address, "cc", Push(email.cc, address))
with_reply(to) == Set("with_reply", "", to, "reply_to", Push(email.reply_to, to))
with_header(name, value) ==
    Set("with_header", name, value, "headers", Insert(email.headers, name, value))
with_attachment(file) ==
    Set("with_attachment", "", file, "attachments", Push(email.attachments, file))
with_tag(tag) == Set("with_tag", "", tag, "tags", Push(email.tags, tag))

NextBuilder ==
    \/ \E v \in Texts : with_html(v)
    \/ \E v \in Texts : with_text(v)
    \/ \E v \in Texts : with_bcc(v)
    \/ \E v \in Texts : with_cc(v)
    \/ \E v \in Texts : with_reply(v)
    \/ \E n \in HeaderNames, v \in Texts : with_header(n, v)
    \/ \E v \in Texts : with_attachment(v)
    \/ \E v \in Texts : with_tag(v)

SpecBuilder == InitDispatch /\ [][NextBuilder]_vars

\* ----------------------------------------------------------------- claims
Throttled(k) == {i \in DOMAIN admits[k] : admits[k][i].throttled}
IsErrorStatus(status) == status \in 400..599
LastResponse == last.done /\ last.net.kind = "resp"

\* C1: whatever the interleaving of the callers of Config::send, a limiter
\* with burst B lets at most B of them through within any Period.
C1_AtMostBurstPerPeriod ==
    \A k \in Handles :
        burst[k] > 0 => Cardinality(Throttled(k)) <= burst[k]

C1_Witness ==
    \E c \in Callers :
        /\ waited[c] /\ acquired[c]
        /\ Cardinality(Throttled(CfgOf(c))) = burst[CfgOf(c)]

\* C2: no request of any facade method is with the transport unless its call
\* has taken a cell of the limiter first.
C2_EveryFacadeThrottled ==
    \A c \in Callers : pc[c] = "inflight" => acquired[c]

\* C3: a facade call answered with a status in [400,599] never returns a
\* success value.
C3_ErrorStatusIsError ==
    (LastResponse /\ IsErrorStatus(last.net.resp.status)) => last.result.tag # "Ok"

\* C4: Config::send answers a status in [400,599] whose body has the error
\* shape with Error::Resend carrying exactly the body's kind and message.
C4_RemoteErrorExact ==
    (/\ LastResponse
     /\ last.op \in EmailsOps
     /\ IsErrorStatus(last.net.resp.status)
     /\ last.net.resp.body.json
     /\ {"name", "message"} \subseteq last.net.resp.body.fields)
        => /\ last.sent.tag = "Resend"
           /\ last.sent.kind = last.net.resp.body.name
           /\ last.sent.message = last.net.resp.body.message
           /\ last.result = last.sent

C4_Witness ==
    /\ LastResponse
    /\ last.op = "emails.send"
    /\ last.net.resp.status = 422
    /\ last.net.resp.body = BodyError("validation_error", "invalid from field")
    /\ last.result.tag = "Resend"
    /\ last.result.kind = "validation_error"

\* C5: Config::send answers a status in [400,599] whose body does not have the
\* error shape with Error::Http, never with Error::Resend and never with Ok.
C5_UndecodableIsTransport ==
    (/\ LastResponse
     /\ last.op \in EmailsOps
     /\ IsErrorStatus(last.net.resp.status)
     /\ ~(/\ last.net.resp.body.json
          /\ {"name", "message"} \subseteq last.net.resp.body.fields))
        => last.sent.tag = "Http" /\ last.result.tag = "Http"

C5_Witness ==
    /\ LastResponse
    /\ last.op = "emails.get"
    /\ last.net.resp.status = 500
    /\ last.net.resp.body = BodyNameOnly("not_found")
    /\ last.sent.tag = "Http"

\* C6: Config::send hands a response with a status outside [400,599] back as
\* Ok, the same response, its body not read.
C6_OtherStatusPassedThrough ==
    (/\ LastResponse
     /\ last.op \in EmailsOps
     /\ ~IsErrorStatus(last.net.resp.status))
        => /\ last.sent.tag = "Ok"
           /\ last.sent.resp = last.net.resp
           /\ ~last.sent.resp.read

C6_Witness ==
    /\ LastResponse
    /\ last.op = "emails.get"
    /\ last.net.resp.status = 200
    /\ last.net.resp.body = BodyEmail
    /\ last.sent = ResOk(Response(200, BodyEmail))
    /\ last.result.tag = "Ok"

\* C7: a Client and all its clones hold one limiter, and the requests that
\* reach the transport through any of them, by any facade, stay within its
\* one burst per Period.
C7_OneBudgetForAllClones ==
    /\ \A h \in Handles : handleCfg[h] \in {0, 1}
    /\ Len(admits[1]) <= burst[1]

\* C8: the burst is used up; a Period passes with nothing let through; the
\* whole burst is available again.
C8_BurstBackAfterPeriod ==
    [][\A k \in Handles :
        (/\ burst[k] > 0
         /\ Available(k) = 0
         /\ tat'[k] = tat[k] - Period
         /\ admits'[k] = <<>>)
            => Available(k)' = burst[k]]_vars

\* C9: a caller that finds the budget used up stays at the acquisition point
\* (it does not return), and a call returns an error only for a failed
\* finalization, a failed transport, an error status or an undecodable body.
C9_ExhaustionNeverFails ==
    [][/\ \A c \in Callers :
            (pc[c] = "acquire" /\ ~Ready(CfgOf(c))) => pc'[c] = "acquire"
       /\ (last'.done /\ last'.result.tag # "Ok") =>
            \/ last'.net.kind \in {"builderr", "neterr"}
            \/ /\ last'.net.kind = "resp"
               /\ \/ IsErrorStatus(last'.net.resp.status)
                  \/ ~DecodesAs(ResponseType(last'.op), last'.net.resp.body)]_vars

C9_Witness ==
    last.done /\ last.waited /\ last.acquired /\ last.result.tag = "Ok"

\* C10: with the callers rescheduled and time going on, every caller waiting
\* for a cell gets one; and a caller is never put to sleep while a cell is
\* available, whoever else is waiting.
C10_EveryWaiterAdmitted ==
    /\ \A c \in Callers : (pc[c] = "acquire") ~> (pc[c] = "execute")
    /\ [][\A c \in Callers :
            (pc[c] = "acquire" /\ Ready(CfgOf(c))) => rem'[c] <= rem[c]]_vars

C10_Witness ==
    \E c, b \in Callers :
        /\ c # b
        /\ pc[c] = "execute" /\ waited[c]
        /\ pc[b] = "acquire" /\ rem[b] > 0

\* C11: a call abandoned at the limiter's wait has taken nothing: the step
\* that drops it leaves the limiter as it was, with as many cells for the
\* others, and the limiter's state only ever moves forward in a step that
\* lets a caller through, never for one it keeps waiting.
C11_AbandonedWaitTakesNothing ==
    [][ /\ \A c \in Callers :
            pc[c] = "acquire" /\ pc'[c] = "idle" =>
                /\ tat' = tat /\ admits' = admits
                /\ \A k \in Handles : Available(k)' = Available(k)
        /\ \A k \in Handles :
            tat'[k] > tat[k] =>
                \E c \in Callers :
                    CfgOf(c) = k /\ pc[c] = "acquire" /\ pc'[c] = "execute"
                        /\ cells'[c] = cells[c] + 1 ]_vars

C11_Witness ==
    /\ last.dropped /\ last.waited /\ last.cells = 0
    /\ \E c \in Callers : waited[c] /\ acquired[c]

\* C12 as stated: every call of Config::send that returns, the one whose
\* request could not be finalized included, has taken exactly one cell and
\* has made exactly one round trip.
C12_OneCellOneRoundTrip ==
    last.done /\ UsesConfigSend(last.op) => last.cells = 1 /\ last.trips = 1

\* C12, amended: every call of Config::send that returns has taken exactly
\* one cell; its request was handed to the transport exactly once, unless
\* request.build() failed, and then it was never handed over. No call takes a
\* second cell or transmits a second time.
C12_OneCellAtMostOneRoundTrip ==
    /\ last.done /\ UsesConfigSend(last.op) =>
            /\ last.cells = 1
            /\ last.trips = IF last.net = BuildError THEN 0 ELSE 1
    /\ \A c \in Callers : cells[c] <= 1 /\ trips[c] <= 1

C12_Witness ==
    /\ last.done /\ UsesConfigSend(last.op) /\ last.net = BuildError
    /\ last.cells = 1 /\ last.trips = 0
    /\ calls > 1

\* C13: construction panics exactly when the credential is missing, the
\* base URL is set and malformed, or the rate override is set and is no
\* non-negative integer; with any other input, a rate override of 0
\* included, it yields a Client.
C13_PanicsExactlyOnBadInput ==
    boot.stage # "env" =>
        (boot.stage = "panicked" <=>
            \/ boot.entry = "default" /\ ~boot.envKey.set
            \/ boot.envUrl.set /\ boot.envUrl.val \notin ValidUrls
            \/ boot.rate.set /\ boot.rate.val < 0)

\* C14: build is pure. The request of a call is that of the call before it
\* whenever both name the same method and path, and it is made of the method,
\* of the path under the base URL and of the two headers alone; the step that
\* builds it hands nothing to the transport and leaves the limiter as it was.
C14_BuildIsPure ==
    /\ [](\A c \in Callers :
            pc[c] # "idle" =>
                /\ req[c].method = Method(op[c])
                /\ req[c].url = <<boot.cfg.base_url, Path(op[c])>>
                /\ last.done /\ last.op = op[c] => req[c] = last.req)
    /\ [][\A c \in Callers :
            pc[c] = "idle" /\ pc'[c] # "idle" =>
                /\ tat' = tat /\ admits' = admits
                /\ cells'[c] = 0 /\ trips'[c] = 0]_vars

C14_Witness ==
    \E c \in Callers :
        /\ pc[c] = "acquire" /\ tat[CfgOf(c)] = Period /\ Available(CfgOf(c)) < burst[CfgOf(c)]
        /\ last.done /\ last.op = op[c] /\ req[c] = last.req /\ req[c] # NoRequest

\* C15: every request with the transport, whichever facade and whichever
\* clone of the handle sent it, carries Authorization: Bearer <the key the
\* Client was made with> and the fixed User-Agent.
C15_CredentialOnEveryRequest ==
    \A c \in Callers :
        pc[c] = "inflight" =>
            /\ req[c].auth = <<"Bearer", KeyOf(boot)>>
            /\ req[c].user_agent = UserAgent

C15_Witness ==
    \E c \in Callers :
        /\ pc[c] = "inflight" /\ hnd[c] # 1 /\ op[c] = "contacts.add"
        /\ KeyOf(boot) = "re_456" /\ req[c].auth = <<"Bearer", "re_456">>
        /\ last.done /\ last.op = "emails.send"

\* C16: the Debug output of a Client, of a facade or of the Config shows the
\* mask and never the key: it is the output of the same Client made with any
\* other key.
C16_DebugHidesKey ==
    boot.shown # <<>> =>
        /\ \A i \in DOMAIN boot.shown : boot.shown[i] \notin ApiKeys
        /\ \E i \in DOMAIN boot.shown : boot.shown[i] = KeyMask
        /\ \E who \in Formatters :
            \A k \in ApiKeys :
                boot.shown = DebugOf(who, [boot.cfg EXCEPT !.api_key = k])

C16_Witness ==
    /\ boot.shown # <<>> /\ boot.shown[1] = "EmailsSvc"
    /\ boot.cfg.api_key = "re_456" /\ boot.entry = "default"

\* C17: no step of any call, whatever it returns, changes the credential,
\* the base URL, the user agent or the transport of the Config, or the
\* handle's hold on it; after any call the handle takes the next one. The
\* limiter's state is what calls change.
C17_CallsLeaveConfigAlone ==
    /\ [][boot' = boot /\ handleCfg' = handleCfg /\ burst' = burst]_vars
    /\ [](/\ boot.cfg = ConfigOf(KeyOf(boot), BaseUrlOf(boot))
          /\ pc[1] = "idle" /\ calls < MaxCalls => ENABLED Call(1, 1, "emails.send"))

C17_Witness ==
    /\ last.done /\ last.result.tag = "Resend" /\ last.op = "emails.get"
    /\ pc[1] = "inflight" /\ op[1] = "contacts.update" /\ tat[1] > 0
    /\ boot.cfg.client = "reqwest::Client"

\* The calls of one setter among those made, in the order they were made.
CallsOf(setter) == SelectSeq(email.setters, LAMBDA x : x.setter = setter)
Called(setter) == CallsOf(setter) # <<>>
LastOf(setter) == CallsOf(setter)[Len(CallsOf(setter))].value
ValuesOf(setter) == [i \in 1..Len(CallsOf(setter)) |-> CallsOf(setter)[i].value]
NamesOf(setter) == {CallsOf(setter)[i].name : i \in 1..Len(CallsOf(setter))}
LastFor(setter, name) ==
    LET named == SelectSeq(CallsOf(setter), LAMBDA x : x.name = name)
    IN  named[Len(named)].value

\* C18 as stated: each field a setter was called for holds the value of the
\* last call of that setter and nothing else.
C18_LastWriteWins ==
    /\ Called("with_html") => email.html = Some(LastOf("with_html"))
    /\ Called("with_text") => email.text = Some(LastOf("with_text"))
    /\ Called("with_bcc") => email.bcc = Some(<<LastOf("with_bcc")>>)
    /\ Called("with_cc") => email.cc = Some(<<LastOf("with_cc")>>)
    /\ Called("with_reply") => email.reply_to = Some(<<LastOf("with_reply")>>)
    /\ Called("with_attachment") =>
            email.attachments = Some(<<LastOf("with_attachment")>>)
    /\ Called("with_tag") => email.tags = Some(<<LastOf("with_tag")>>)
    /\ Called("with_header") =>
            email.headers =
                Some([n \in NamesOf("with_header") |-> LastFor("with_header", n)])

\* C18, amended: html and text hold the value of the last call of their
\* setter; headers hold, for each name set, the value of the last call for
\* that name; bcc, cc, reply_to, attachments and tags hold the values of all
\* the calls of their setter in the order of the calls. Each field is set by
\* the calls of its own setter alone, whatever other setters were called in
\* between.
C18_OverwriteOrAccumulate ==
    LET Kept(setter) == IF Called(setter) THEN Some(ValuesOf(setter)) ELSE None
        Latest(setter) == IF Called(setter) THEN Some(LastOf(setter)) ELSE None
    IN  /\ email.html = Latest("with_html")
        /\ email.text = Latest("with_text")
        /\ email.bcc = Kept("with_bcc")
        /\ email.cc = Kept("with_cc")
        /\ email.reply_to = Kept("with_reply")
        /\ email.attachments = Kept("with_attachment")
        /\ email.tags = Kept("with_tag")
        /\ email.headers =
                IF Called("with_header")
                THEN Some([n \in NamesOf("with_header") |-> LastFor("with_header", n)])
                ELSE None

C18_Witness ==
    /\ email.bcc = Some(<<"a", "b">>)
    /\ Len(email.setters) = 3 /\ email.setters[2].setter = "with_html"
    /\ email.html = Some("b")

====
